---- MODULE Spec2Model ----
(***************************************************************************)
(* A model of src/lib.rs of ical-property: the conversion of a parsed      *)
(* iCalendar component (an ordered list of name/value properties) into a   *)
(* typed Event, and the scalar parsers it uses.                            *)
(*                                                                         *)
(* Text is modelled by TLA+ strings, read character by character with      *)
(* SubSeq.  Option<T> is a sequence of length at most one: <<>> is None    *)
(* and <<v>> is Some(v), so that Some(vec![]) and None differ.  A Rust     *)
(* Result is a record [tag, val, msg]; a panic (an unwrap of None, a       *)
(* chrono "out of bounds" expect) is the third tag "Panic".                *)
(*                                                                         *)
(* An intermediate value that the code binds with let and uses several     *)
(* times is passed on as the argument of a local operator, so that it is   *)
(* computed once.                                                          *)
(***************************************************************************)
EXTENDS Integers, Sequences, FiniteSets, TLC

VARIABLES
    properties,   \* input.properties: the component's property list
    tz,           \* the process's local time zone (chrono::Local)
    i,            \* number of properties the for loop has consumed
    event,        \* let mut event
    rrule_lines,  \* let mut rrule_lines: Option<Vec<String>>
    has_rrules,   \* let mut has_rrules
    rrule_text,   \* the text block handed to the recurrence parser, if any
    result,       \* what map_ical_event returned, once pc = "done"
    pc,           \* "loop" | "after_loop" | "done" ; "call" | "returned" for the parsers
    s,            \* the argument of a scalar parser called on its own
    parsed        \* what that parser returned

vars == <<properties, tz, i, event, rrule_lines, has_rrules, rrule_text, result, pc, s, parsed>>

---------------------------------------------------------------------------
(* Option and Result *)

None == <<>>

Some(v) == <<v>>

IsSome(o) == Len(o) = 1

Unwrap(o) == o[1]

Ok(v) == [tag |-> "Ok", val |-> <<v>>, msg |-> ""]

Err(m) == [tag |-> "Err", val |-> <<>>, msg |-> m]

Panic(m) == [tag |-> "Panic", val |-> <<>>, msg |-> m]

NotReturned == [tag |-> "none", val |-> <<>>, msg |-> ""]

---------------------------------------------------------------------------
(* Characters *)

\* the k-th character of str, "" past its end
Char(str, k) == IF k \in 1..Len(str) THEN SubSeq(str, k, k) ELSE ""

AsciiDigits == {"0", "1", "2", "3", "4", "5", "6", "7", "8", "9"}

IsDigit(c) == c \in AsciiDigits

DigitVal(c) ==
    CASE c = "0" -> 0 [] c = "1" -> 1 [] c = "2" -> 2 [] c = "3" -> 3
      [] c = "4" -> 4 [] c = "5" -> 5 [] c = "6" -> 6 [] c = "7" -> 7
      [] c = "8" -> 8 [] c = "9" -> 9

AllDigits(str) == \A k \in 1..Len(str) : IsDigit(Char(str, k))

StartsWith(str, prefix) ==
    Len(str) >= Len(prefix) /\ SubSeq(str, 1, Len(prefix)) = prefix

---------------------------------------------------------------------------
(* Natural numbers of any size, as little-endian sequences of decimal     *)
(* digits without leading zeros (zero is <<>>): i64 and chrono's Duration *)
(* range exceed the integers TLC computes with.                           *)

RECURSIVE BigTrim(_)
BigTrim(a) ==
    IF a = <<>> THEN <<>>
    ELSE IF a[Len(a)] = 0 THEN BigTrim(SubSeq(a, 1, Len(a) - 1))
    ELSE a

RECURSIVE ReverseDigits(_)
ReverseDigits(str) ==
    IF str = "" THEN <<>> ELSE ReverseDigits(Tail(str)) \o <<DigitVal(Head(str))>>

\* the number a run of ASCII digits writes
BigOfDigits(str) == BigTrim(ReverseDigits(str))

RECURSIVE BigAddCarry(_, _, _)
BigAddCarry(a, b, carry) ==
    IF a = <<>> /\ b = <<>>
    THEN (IF carry = 0 THEN <<>> ELSE <<carry>>)
    ELSE LET x == IF a = <<>> THEN 0 ELSE Head(a)
             y == IF b = <<>> THEN 0 ELSE Head(b)
             t == x + y + carry
         IN  <<t % 10>> \o BigAddCarry(IF a = <<>> THEN <<>> ELSE Tail(a),
                                       IF b = <<>> THEN <<>> ELSE Tail(b),
                                       t \div 10)

BigAdd(a, b) == BigTrim(BigAddCarry(a, b, 0))

RECURSIVE BigMulCarry(_, _, _)
BigMulCarry(a, k, carry) ==
    IF a = <<>>
    THEN (IF carry = 0 THEN <<>> ELSE <<carry % 10>> \o BigMulCarry(<<>>, k, carry \div 10))
    ELSE LET t == Head(a) * k + carry
         IN  <<t % 10>> \o BigMulCarry(Tail(a), k, t \div 10)

BigMul(a, k) == BigTrim(BigMulCarry(a, k, 0))

RECURSIVE BigLessFrom(_, _, _)
BigLessFrom(a, b, k) ==
    IF k = 0 THEN FALSE
    ELSE IF a[k] # b[k] THEN a[k] < b[k]
    ELSE BigLessFrom(a, b, k - 1)

BigLeq(a, b) ==
    IF Len(a) # Len(b) THEN Len(a) < Len(b)
    ELSE ~BigLessFrom(b, a, Len(a))

BigToInt(a, sign) ==
    LET RECURSIVE go(_)
        go(d) == IF d = <<>> THEN 0 ELSE sign * Head(d) + 10 * go(Tail(d))
    IN  go(a)

---------------------------------------------------------------------------
(* str::parse for the integer types the code parses into *)

I64Max == BigOfDigits("9223372036854775807")

\* "...".parse::<i64>() on a run of ASCII digits (all the regex's \d+ yields here)
ParseI64(str) ==
    LET Checked(n) == IF BigLeq(n, I64Max) THEN Ok(n) ELSE Err("ParseIntError")
    IN  IF str # "" /\ AllDigits(str) THEN Checked(BigOfDigits(str)) ELSE Err("ParseIntError")

\* value.parse::<u8>(): an optional '+', then at least one digit, at most 255
ParseU8(str) ==
    LET Checked(n) ==
            IF BigLeq(n, BigOfDigits("255")) THEN Ok(BigToInt(n, 1)) ELSE Err("ParseIntError")
        Digits(body) ==
            IF body # "" /\ AllDigits(body) THEN Checked(BigOfDigits(body)) ELSE Err("ParseIntError")
    IN  Digits(IF StartsWith(str, "+") THEN Tail(str) ELSE str)

\* value.parse::<i32>(): an optional sign, then at least one digit, in -2^31 .. 2^31-1
ParseI32(str) ==
    LET Checked(n, neg) ==
            IF BigLeq(n, BigOfDigits(IF neg THEN "2147483648" ELSE "2147483647"))
            THEN Ok(BigToInt(n, IF neg THEN -1 ELSE 1))
            ELSE Err("ParseIntError")
        Digits(body, neg) ==
            IF body # "" /\ AllDigits(body) THEN Checked(BigOfDigits(body), neg)
            ELSE Err("ParseIntError")
    IN  Digits(IF StartsWith(str, "-") \/ StartsWith(str, "+") THEN Tail(str) ELSE str,
               StartsWith(str, "-"))

---------------------------------------------------------------------------
(* EventStatus and EventTransparency *)

LowerLetters == "abcdefghijklmnopqrstuvwxyz"

UpperLetters == "ABCDEFGHIJKLMNOPQRSTUVWXYZ"

UpperChar(c) ==
    IF \E k \in 1..26 : Char(LowerLetters, k) = c
    THEN Char(UpperLetters, CHOOSE k \in 1..26 : Char(LowerLetters, k) = c)
    ELSE c

\* s.to_uppercase(), on ASCII text
RECURSIVE ToUppercase(_)
ToUppercase(str) ==
    IF str = "" THEN "" ELSE UpperChar(Head(str)) \o ToUppercase(Tail(str))

\* <EventStatus as FromStr>::from_str
EventStatusFromStr(str) ==
    LET Match(u) ==
            CASE u = "TENTATIVE" -> Ok("Tentative")
              [] u = "CONFIRMED" -> Ok("Confirmed")
              [] u = "CANCELLED" -> Ok("Cancelled")
              [] OTHER -> Err("()")
    IN  Match(ToUppercase(str))

\* <EventTransparency as FromStr>::from_str
EventTransparencyFromStr(str) ==
    LET Match(u) ==
            CASE u = "OPAQUE" -> Ok("Opaque")
              [] u = "TRANSPARENT" -> Ok("Transparent")
              [] OTHER -> Err("()")
    IN  Match(ToUppercase(str))

---------------------------------------------------------------------------
(* parse_duration *)

\* the first position at or after pos that holds no digit (Len + 1 at the end)
RECURSIVE DigitsEnd(_, _)
DigitsEnd(str, pos) ==
    IF pos <= Len(str) /\ IsDigit(Char(str, pos)) THEN DigitsEnd(str, pos + 1) ELSE pos

AbsentGroup(pos) == [present |-> FALSE, text |-> "", next |-> pos]

\* one optional group (?:(?P<name>\d+)U) tried at pos: the digits and the position
\* after the unit letter, or absent and the position unchanged
RegexGroup(str, pos, unit) ==
    LET Upto(e) ==
            IF e > pos /\ Char(str, e) = unit
            THEN [present |-> TRUE, text |-> SubSeq(str, pos, e - 1), next |-> e + 1]
            ELSE AbsentGroup(pos)
    IN  Upto(DigitsEnd(str, pos))

\* re.captures(s) for ^P(?:(\d+)D)?(?:T(?:(\d+)H)?(?:(\d+)M)?(?:(\d+)S)?)?$
DurationCaptures(str) ==
    LET AtEnd(d, h, m, sec) ==
            IF sec.next = Len(str) + 1
            THEN Some([days |-> d, hours |-> h, minutes |-> m, seconds |-> sec])
            ELSE None
        AfterM(d, h, m) == AtEnd(d, h, m, RegexGroup(str, m.next, "S"))
        AfterH(d, h)    == AfterM(d, h, RegexGroup(str, h.next, "M"))
        AfterD(d) ==
            IF Char(str, d.next) = "T"
            THEN AfterH(d, RegexGroup(str, d.next + 1, "H"))
            ELSE AtEnd(d, AbsentGroup(0), AbsentGroup(0), AbsentGroup(d.next))
    IN  IF StartsWith(str, "P") THEN AfterD(RegexGroup(str, 2, "D")) ELSE None

\* captures.name(..).map(|m| m.as_str().parse::<i64>().unwrap_or(0)).unwrap_or(0)
CaptureOrZero(group) ==
    LET UnwrapOr0(r) == IF r.tag = "Ok" THEN Unwrap(r.val) ELSE <<>>
    IN  IF group.present THEN UnwrapOr0(ParseI64(group.text)) ELSE <<>>

\* chrono: a Duration holds at most i64::MAX milliseconds
DurationMaxSecs == BigOfDigits("9223372036854775")

\* Duration::days / hours / minutes / seconds (n units of unit seconds), which
\* panic when out of bounds
DurationOf(n, unit) ==
    LET Checked(secs) ==
            IF BigLeq(secs, DurationMaxSecs) THEN Ok(secs) ELSE Panic("out of bounds")
    IN  Checked(BigMul(n, unit))

\* Duration + Duration, which panics on overflow
DurationAdd(a, b) ==
    LET Checked(secs) ==
            IF BigLeq(secs, DurationMaxSecs) THEN Ok(secs)
            ELSE Panic("Duration + Duration overflowed")
    IN  IF a.tag # "Ok" THEN a
        ELSE IF b.tag # "Ok" THEN b
        ELSE Checked(BigAdd(Unwrap(a.val), Unwrap(b.val)))

parse_duration(str) ==
    LET Sum(c) ==
            DurationAdd(DurationAdd(DurationAdd(DurationOf(CaptureOrZero(c.days), 86400),
                                                DurationOf(CaptureOrZero(c.hours), 3600)),
                                    DurationOf(CaptureOrZero(c.minutes), 60)),
                        DurationOf(CaptureOrZero(c.seconds), 1))
        Matched(captures) ==
            IF IsSome(captures) THEN Sum(Unwrap(captures)) ELSE Err("Invalid duration format")
    IN  Matched(DurationCaptures(str))

---------------------------------------------------------------------------
(* chrono's parse_from_str: the format is a list of items, a literal      *)
(* character or a numeric field.  A numeric field skips leading white      *)
(* space and takes at least one and at most width digits; the year also    *)
(* takes a sign, and then any number of digits.  Input left over after the *)
(* last item is an error.                                                  *)

Lit(c) == [lit |-> c, field |-> "", width |-> 0, signed |-> FALSE]

Num(f, w, sg) == [lit |-> "", field |-> f, width |-> w, signed |-> sg]

FormatDate == <<Num("year", 4, TRUE), Num("month", 2, FALSE), Num("day", 2, FALSE)>>

FormatTime == <<Lit("T"), Num("hour", 2, FALSE), Num("minute", 2, FALSE), Num("second", 2, FALSE)>>

\* "%Y%m%d"
FormatYmd == FormatDate

\* "%Y%m%dT%H%M%SZ"
FormatYmdHmsZ == FormatDate \o FormatTime \o <<Lit("Z")>>

\* "%Y%m%dT%H%M%S"
FormatYmdHms == FormatDate \o FormatTime

IsSpace(c) == c \in {" ", "\t", "\n", "\r"}

RECURSIVE SkipSpace(_, _)
SkipSpace(str, pos) ==
    IF pos <= Len(str) /\ IsSpace(Char(str, pos)) THEN SkipSpace(str, pos + 1) ELSE pos

NoFields == [year |-> 0, month |-> 0, day |-> 0, hour |-> 0, minute |-> 0, second |-> 0]

\* scan one numeric item at pos: None, or the value and the position after it
ScanNumeric(str, pos, item) ==
    LET Value(n, sign, e) ==
            IF Len(n) > 6 THEN None
            ELSE Some([value |-> BigToInt(n, IF sign = "-" THEN -1 ELSE 1), next |-> e])
        Take(p1, e, sign) ==
            IF e = p1 THEN None ELSE Value(BigOfDigits(SubSeq(str, p1, e - 1)), sign, e)
        Run(p1, allEnd, sign) ==
            Take(p1, IF sign = "" /\ allEnd > p1 + item.width THEN p1 + item.width ELSE allEnd,
                 sign)
        Signed(p1, sign) == Run(p1, DigitsEnd(str, p1), sign)
        Start(p0) ==
            IF item.signed /\ Char(str, p0) \in {"+", "-"}
            THEN Signed(p0 + 1, Char(str, p0))
            ELSE Signed(p0, "")
    IN  Start(SkipSpace(str, pos))

RECURSIVE ScanItems(_, _, _, _)
ScanItems(str, pos, items, fields) ==
    LET Numeric(item, num) ==
            IF IsSome(num)
            THEN ScanItems(str, Unwrap(num).next, Tail(items),
                           [fields EXCEPT ![item.field] = Unwrap(num).value])
            ELSE None
        Item(item) ==
            IF item.lit # ""
            THEN (IF Char(str, pos) = item.lit
                  THEN ScanItems(str, pos + 1, Tail(items), fields)
                  ELSE None)
            ELSE Numeric(item, ScanNumeric(str, pos, item))
    IN  IF items = <<>>
        THEN (IF pos = Len(str) + 1 THEN Some(fields) ELSE None)
        ELSE Item(Head(items))

IsLeapYear(y) == y % 4 = 0 /\ (y % 100 # 0 \/ y % 400 = 0)

DaysInMonth(y, m) ==
    CASE m \in {1, 3, 5, 7, 8, 10, 12} -> 31
      [] m \in {4, 6, 9, 11} -> 30
      [] m = 2 -> (IF IsLeapYear(y) THEN 29 ELSE 28)
      [] OTHER -> 0

\* the day number of a civil date, counted from 1970-01-01
DaysFromCivil(y, m, d) ==
    LET Days(era, yoe, doy) == era * 146097 + yoe * 365 + yoe \div 4 - yoe \div 100 + doy - 719468
        Shifted(yy, mp) ==
            Days(yy \div 400, yy - (yy \div 400) * 400, (153 * mp + 2) \div 5 + d - 1)
    IN  Shifted(IF m <= 2 THEN y - 1 ELSE y, IF m > 2 THEN m - 3 ELSE m + 9)

ValidDate(f) ==
    /\ f.year \in -262143..262142
    /\ f.month \in 1..12
    /\ f.day \in 1..DaysInMonth(f.year, f.month)

\* a second of 60 is read as a leap second: second 59 with the leap flag
ValidTime(f) == f.hour \in 0..23 /\ f.minute \in 0..59 /\ f.second \in 0..60

\* NaiveDate::parse_from_str(s, fmt)
NaiveDateParse(str, fmt) ==
    LET Date(f) ==
            IF IsSome(f) /\ ValidDate(Unwrap(f))
            THEN Ok([day |-> DaysFromCivil(Unwrap(f).year, Unwrap(f).month, Unwrap(f).day)])
            ELSE Err("ParseError")
    IN  Date(ScanItems(str, 1, fmt, NoFields))

\* NaiveDateTime::parse_from_str(s, fmt)
NaiveDateTimeParse(str, fmt) ==
    LET DateTime(g) ==
            IF ValidDate(g) /\ ValidTime(g)
            THEN Ok([day  |-> DaysFromCivil(g.year, g.month, g.day),
                     sod  |-> g.hour * 3600 + g.minute * 60
                               + (IF g.second = 60 THEN 59 ELSE g.second),
                     leap |-> g.second = 60])
            ELSE Err("ParseError")
        Scanned(f) == IF IsSome(f) THEN DateTime(Unwrap(f)) ELSE Err("ParseError")
    IN  Scanned(ScanItems(str, 1, fmt, NoFields))

---------------------------------------------------------------------------
(* DateMaybeTime, and the local time zone *)

\* DateMaybeTime::Date(NaiveDate), via From<NaiveDate>
DateVariant(date) == [variant |-> "Date", day |-> date.day, sod |-> 0, leap |-> FALSE]

\* DateMaybeTime::DateTime(DateTime<Utc>), via From<DateTime<Utc>>
DateTimeVariant(utc) == [variant |-> "DateTime", day |-> utc.day, sod |-> utc.sod, leap |-> utc.leap]

\* A zone: its standard and daylight offsets from UTC in seconds and, for the
\* year 2024, the local wall-clock interval its spring transition skips (the gap)
\* and the one its autumn transition repeats (the fold).
ZoneUtc ==
    [name |-> "UTC", observes_dst |-> FALSE, std |-> 0, dst |-> 0,
     gap_from  |-> [day |-> 0, sod |-> 0], gap_to  |-> [day |-> 0, sod |-> 0],
     fold_from |-> [day |-> 0, sod |-> 0], fold_to |-> [day |-> 0, sod |-> 0]]

ZoneNewYork ==
    [name |-> "America/New_York", observes_dst |-> TRUE, std |-> -18000, dst |-> -14400,
     gap_from  |-> [day |-> DaysFromCivil(2024, 3, 10), sod |-> 7200],
     gap_to    |-> [day |-> DaysFromCivil(2024, 3, 10), sod |-> 10800],
     fold_from |-> [day |-> DaysFromCivil(2024, 11, 3), sod |-> 3600],
     fold_to   |-> [day |-> DaysFromCivil(2024, 11, 3), sod |-> 7200]]

Zones == {ZoneUtc, ZoneNewYork}

NaiveBefore(a, b) == a.day < b.day \/ (a.day = b.day /\ a.sod < b.sod)

\* dt.and_local_timezone(Local): "Single" with the offset, "Ambiguous" or "None"
AndLocalTimezone(dt, zone) ==
    IF ~zone.observes_dst THEN [kind |-> "Single", offset |-> zone.std]
    ELSE IF ~NaiveBefore(dt, zone.gap_from) /\ NaiveBefore(dt, zone.gap_to)
    THEN [kind |-> "None", offset |-> 0]
    ELSE IF ~NaiveBefore(dt, zone.fold_from) /\ NaiveBefore(dt, zone.fold_to)
    THEN [kind |-> "Ambiguous", offset |-> 0]
    ELSE IF ~NaiveBefore(dt, zone.gap_to) /\ NaiveBefore(dt, zone.fold_from)
    THEN [kind |-> "Single", offset |-> zone.dst]
    ELSE [kind |-> "Single", offset |-> zone.std]

\* dt.to_utc() of the local time dt at the given offset
ToUtc(dt, offset) ==
    [day  |-> dt.day + (dt.sod - offset) \div 86400,
     sod  |-> (dt.sod - offset) % 86400,
     leap |-> dt.leap]

\* LocalResult::unwrap panics on None and on Ambiguous
LocalResultUnwrap(lr, dt) ==
    IF lr.kind = "Single" THEN Ok(ToUtc(dt, lr.offset))
    ELSE Panic("LocalResult::unwrap: no single local time")

\* dateparser::parse, the best-effort fallback: of the inputs drawn here it
\* accepts the RFC 3339 form YYYY-MM-DDTHH:MM:SSZ, and nothing else
FormatRfc3339Z ==
    <<Num("year", 4, FALSE), Lit("-"), Num("month", 2, FALSE), Lit("-"), Num("day", 2, FALSE),
      Lit("T"), Num("hour", 2, FALSE), Lit(":"), Num("minute", 2, FALSE), Lit(":"),
      Num("second", 2, FALSE), Lit("Z")>>

dateparser_parse(str) ==
    LET Outcome(r) == IF r.tag = "Ok" THEN r ELSE Err("dateparser: no format matched")
    IN  Outcome(IF Len(str) = 20 THEN NaiveDateTimeParse(str, FormatRfc3339Z) ELSE Err(""))

parse_datetime(str, zone) ==
    LET Wrap(r) == IF r.tag = "Ok" THEN Ok(DateTimeVariant(Unwrap(r.val))) ELSE r
        Rule3(dtl) ==
            IF dtl.tag = "Ok"
            THEN Wrap(LocalResultUnwrap(AndLocalTimezone(Unwrap(dtl.val), zone), Unwrap(dtl.val)))
            ELSE Wrap(dateparser_parse(str))
        Rule2(dtz) ==
            IF dtz.tag = "Ok" THEN Wrap(dtz) ELSE Rule3(NaiveDateTimeParse(str, FormatYmdHms))
        Rule1(d) ==
            IF d.tag = "Ok" THEN Ok(DateVariant(Unwrap(d.val)))
            ELSE Rule2(NaiveDateTimeParse(str, FormatYmdHmsZ))
    IN  Rule1(NaiveDateParse(str, FormatYmd))

---------------------------------------------------------------------------
(* Event and map_ical_event *)

\* Event::default(): every field None
EventDefault ==
    [uid |-> None, created |-> None, summary |-> None, start |-> None, end |-> None,
     duration |-> None, location |-> None, description |-> None, status |-> None,
     transparency |-> None, categories |-> None, attendees |-> None, organizer |-> None,
     priority |-> None, sequence |-> None, dtstamp |-> None, recurrence_id |-> None,
     rrule |-> None, comment |-> None, attach |-> None, alarms |-> None,
     last_modified |-> None]

\* OptionVecPush::push had it stored the element instead of appending it
OptionVecPushReplacing(opt, element) == Some(<<element>>)

\* OptionVecPush::push on an Option<Vec<T>>
OptionVecPush(opt, element) ==
    IF ~IsSome(opt) THEN Some(<<element>>) ELSE Some(Append(Unwrap(opt), element))

\* the buffered names had DTSTART been left out of the list
RecurrenceKeysWithoutStart == {"RDATE", "RRULE", "EXDATE", "EXRULE"}

\* the names whose line is buffered for the recurrence parser
RecurrenceKeys == {"RDATE", "RRULE", "EXDATE", "EXRULE", "DTSTART"}

\* the line had it been formatted with "=" between name and value
RecurrenceLineWithEquals(key, value) == key \o "=" \o value

\* format!("{}:{}", key, value)
RecurrenceLine(key, value) == key \o ":" \o value

\* What one arm of the match does: the event after it, whether it set has_rrules,
\* and ret, the early return it made (NotReturned when the loop goes on).
Continue(ev) == [event |-> ev, sets_flag |-> FALSE, ret |-> NotReturned]

Return(ev, r) == [event |-> ev, sets_flag |-> FALSE, ret |-> r]

\* the assignment had it kept a value already present
AssignScalarKeepingFirst(ev, field, value) ==
    IF IsSome(ev[field]) THEN ev ELSE [ev EXCEPT ![field] = Some(value)]

\* event.field = Some(value)
AssignScalar(ev, field, value) == [ev EXCEPT ![field] = Some(value)]

\* event.field = Some(parse(value)?) : an Err or a panic of the parser leaves the function
AssignParsed(ev, field, r) ==
    IF r.tag = "Ok" THEN Continue(AssignScalar(ev, field, Unwrap(r.val))) ELSE Return(ev, r)

\* .map_err(|_| anyhow!(msg))
MapErr(r, m) == IF r.tag = "Err" THEN Err(m) ELSE r

\* the ignored names had the arm for TRANSP and CLASS been missing
IsIgnoredKeyVendorOnly(key) == StartsWith(key, "X-")

\* the arms  x if x.starts_with("X-") => ()  and  "TRANSP" | "CLASS" => ()
IsIgnoredKey(key) == StartsWith(key, "X-") \/ key \in {"TRANSP", "CLASS"}

\* the error had the name not been formatted into it
UnknownKeyErrorWithoutName(x) == Err("Unknown property key")

\* x => return Err(anyhow!("Unknown property key: {}", x))
UnknownKeyError(x) == Err("Unknown property key: " \o x)

\* the flag had EXRULE shared the arm of RRULE
SetsHasRrulesOnAnyRule(key) == key \in {"RRULE", "EXRULE"}

\* "RRULE" => has_rrules = true
SetsHasRrules(key) == key = "RRULE"

\* match key { ... } ; date is parse_datetime(value) for the arms that call it
MatchKey(ev, key, value, zone) ==
    LET Arms(date) ==
          CASE key = "UID"           -> Continue(AssignScalar(ev, "uid", value))
            [] key = "SUMMARY"       -> Continue(AssignScalar(ev, "summary", value))
            [] key = "DTSTART"       -> AssignParsed(ev, "start", date)
            [] key = "DTEND"         -> AssignParsed(ev, "end", date)
            [] key = "CREATED"       -> AssignParsed(ev, "created", date)
            [] key = "DURATION"      -> AssignParsed(ev, "duration", parse_duration(value))
            [] key = "LOCATION"      -> Continue(AssignScalar(ev, "location", value))
            [] key = "DESCRIPTION"   -> Continue(AssignScalar(ev, "description", value))
            [] key = "STATUS"        ->
                  AssignParsed(ev, "status", MapErr(EventStatusFromStr(value), "Invalid status"))
            [] key = "LAST-MODIFIED" -> AssignParsed(ev, "last_modified", date)
            [] key = "TRANSPARENCY"  ->
                  AssignParsed(ev, "transparency",
                               MapErr(EventTransparencyFromStr(value), "Invalid transparency"))
            [] key = "CATEGORIES"    ->
                  Continue([ev EXCEPT !.categories = OptionVecPush(ev.categories, value)])
            [] key = "ATTENDEE"      ->
                  Continue([ev EXCEPT !.attendees = OptionVecPush(ev.attendees, value)])
            [] key = "ORGANIZER"     -> Continue(AssignScalar(ev, "organizer", value))
            [] key = "PRIORITY"      ->
                  AssignParsed(ev, "priority", MapErr(ParseU8(value), "Invalid priority"))
            [] key = "SEQUENCE"      ->
                  AssignParsed(ev, "sequence", MapErr(ParseI32(value), "Invalid sequence"))
            [] key = "DTSTAMP"       -> AssignParsed(ev, "dtstamp", date)
            [] key = "RECURRENCE-ID" -> AssignParsed(ev, "recurrence_id", date)
            [] SetsHasRrules(key)    -> [event |-> ev, sets_flag |-> TRUE, ret |-> NotReturned]
            [] key \in {"RDATE", "EXRULE", "EXDATE"} -> Continue(ev)
            [] key = "COMMENT"       -> Continue(AssignScalar(ev, "comment", value))
            [] key = "ATTACH"        ->
                  Continue([ev EXCEPT !.attach = OptionVecPush(ev.attach, value)])
            [] key = "ALARM"         ->
                  Continue([ev EXCEPT !.alarms = OptionVecPush(ev.alarms, value)])
            [] OTHER ->
                  IF IsIgnoredKey(key) THEN Continue(ev) ELSE Return(ev, UnknownKeyError(key))
    IN  Arms(IF key \in {"DTSTART", "DTEND", "CREATED", "LAST-MODIFIED", "DTSTAMP", "RECURRENCE-ID"}
             THEN parse_datetime(value, zone)
             ELSE NotReturned)

\* One pass of the body of  for prop in input.properties.iter()  on the locals
\* st = [event, rrule_lines, has_rrules, ret]
LoopBody(st, prop, zone) ==
    LET Dispatched(lines, arm) ==
            [event       |-> arm.event,
             rrule_lines |-> lines,
             has_rrules  |-> st.has_rrules \/ arm.sets_flag,
             ret         |-> arm.ret]
        WithValue(key, value) ==
            Dispatched(IF key \in RecurrenceKeys
                       THEN OptionVecPush(st.rrule_lines, RecurrenceLine(key, value))
                       ELSE st.rrule_lines,
                       MatchKey(st.event, key, value, zone))
    IN  IF ~IsSome(prop.value) THEN st ELSE WithValue(prop.name, Unwrap(prop.value))

\* lines.join("\n")
RECURSIVE Join(_, _)
Join(lines, sep) ==
    IF lines = <<>> THEN ""
    ELSE IF Len(lines) = 1 THEN lines[1]
    ELSE lines[1] \o sep \o Join(Tail(lines), sep)

\* rrule_lines.unwrap().join("\n")
RruleText(lines) ==
    IF IsSome(lines) THEN Ok(Join(Unwrap(lines), "\n")) ELSE Panic("Option::unwrap on None")

\* text.parse::<RRuleSet>() : the recurrence engine is outside this crate; it
\* accepts the block or not, and an accepted block yields the set the block describes
RRuleSetParse(text, accepts) ==
    IF accepts THEN Ok([rrule_set_of |-> text]) ELSE Err("RRuleSet parse error")

\* the tail of map_ical_event, after the loop
AfterLoop(st, accepts) ==
    LET Parsed(rrule) ==
            IF rrule.tag = "Ok" THEN Ok([st.event EXCEPT !.rrule = Some(Unwrap(rrule.val))])
            ELSE rrule
        Joined(text) ==
            IF text.tag = "Ok" THEN Parsed(RRuleSetParse(Unwrap(text.val), accepts)) ELSE text
    IN  IF st.has_rrules THEN Joined(RruleText(st.rrule_lines)) ELSE Ok(st.event)

Locals0 == [event |-> EventDefault, rrule_lines |-> None, has_rrules |-> FALSE, ret |-> NotReturned]

\* map_ical_event as a function of its input: the loop from position k on, then the tail
RECURSIVE RunFrom(_, _, _, _, _)
RunFrom(props, k, st, zone, accepts) ==
    IF st.ret.tag # "none" THEN st.ret
    ELSE IF k > Len(props) THEN AfterLoop(st, accepts)
    ELSE RunFrom(props, k + 1, LoopBody(st, props[k], zone), zone, accepts)

map_ical_event(props, zone, accepts) == RunFrom(props, 1, Locals0, zone, accepts)

---------------------------------------------------------------------------
(* The inputs drawn *)

\* the longest property list drawn
MaxProps == 3

\* the longest string over DurationAlphabet drawn for parse_duration
MaxDurationLen == 4

Prop(n, v) == [name |-> n, value |-> Some(v)]

Bare(n) == [name |-> n, value |-> None]

RECURSIVE ListsOfLen(_, _)
ListsOfLen(S, n) ==
    IF n = 0 THEN {<<>>} ELSE {<<x>> \o l : x \in S, l \in ListsOfLen(S, n - 1)}

ListsUpTo(S, n) == UNION {ListsOfLen(S, k) : k \in 0..n}

TextKeys == {"UID", "SUMMARY", "LOCATION", "DESCRIPTION", "ORGANIZER", "COMMENT"}

DateKeys == {"DTSTART", "DTEND", "CREATED", "DTSTAMP", "RECURRENCE-ID", "LAST-MODIFIED"}

\* Each vocabulary is a small set of properties; an input is a list over one of them.
Vocabularies ==
    {{Prop(n, "first"), Prop(n, "second"), Bare(n), Prop("X-A", "v")} : n \in TextKeys}
    \cup
    {{Prop(n, "20240101"), Prop(n, "20240102T120000Z"), Prop(n, "20240310T023000"), Bare(n)} :
        n \in DateKeys}
    \cup
    {{Prop("DURATION", "P1DT2H3M4S"), Prop("DURATION", "P0D"), Prop("DURATION", "P1DX"),
      Bare("DURATION")},
     {Prop("STATUS", "CONFIRMED"), Prop("STATUS", "tentative"), Prop("STATUS", "MAYBE"),
      Prop("TRANSPARENCY", "transparent"), Prop("TRANSPARENCY", "clear")},
     {Prop("PRIORITY", "1"), Prop("PRIORITY", "255"), Prop("PRIORITY", "256"),
      Prop("SEQUENCE", "-7"), Prop("SEQUENCE", "12"), Prop("SEQUENCE", "x")},
     {Prop("CATEGORIES", "A"), Prop("CATEGORIES", "B"), Bare("CATEGORIES"),
      Prop("ATTENDEE", "A"), Prop("X-A", "v")},
     {Prop("ATTACH", "A"), Prop("ATTACH", "B"), Prop("ALARM", "A"), Prop("ALARM", "B"),
      Bare("ALARM")},
     {Prop("RRULE", "FREQ=DAILY"), Prop("RDATE", "20240105"), Prop("EXDATE", "20240102"),
      Prop("EXRULE", "FREQ=WEEKLY"), Prop("DTSTART", "20240101"), Prop("DTSTART", "bad"),
      Bare("RRULE")},
     {Prop("FOO", "x"), Prop("summary", "y"), Bare("FOO"), Prop("X-WR-CALNAME", "v"),
      Prop("TRANSP", "OPAQUE"), Prop("CLASS", "PUBLIC"), Prop("SUMMARY", "first"),
      Prop("DTEND", "bad"), Prop("RRULE", "FREQ=DAILY")},
     {Prop("DTSTART", "20240310T023000"), Prop("DTEND", "bad"), Prop("DURATION", "P1DX"),
      Prop("STATUS", "MAYBE"), Prop("SUMMARY", "first"), Prop("RRULE", "FREQ=DAILY")}}

Inputs == UNION {ListsUpTo(V, MaxProps) : V \in Vocabularies}

DurationAlphabet == {"P", "T", "D", "H", "M", "S", "0", "1", "X"}

RECURSIVE StringsOfLen(_, _)
StringsOfLen(A, n) ==
    IF n = 0 THEN {""} ELSE {c \o w : c \in A, w \in StringsOfLen(A, n - 1)}

DurationInputs ==
    UNION {StringsOfLen(DurationAlphabet, k) : k \in 0..MaxDurationLen}
    \cup {"P1DT2H3M4S", "P2DT12H", "PT36H", "PT1M30S", "P007D", "P1W", "P-1D", "P1.5D",
          "p1d", " P1D", "P1D ", "P1D\n", "P1DT2H3M4SX",
          "P99999999999999999999D", "PT99999999999999999999S",
          "P9223372036854775807D", "PT9223372036854775808S", "P106751991167D"}

DatetimeInputs ==
    LET dates == {"20240101", "20240310", "20241103", "20240230", "2024011"}
        times == {"000000", "013000", "023000", "120000", "235960", "126000"}
    IN  dates
        \cup {d \o "T" \o h \o z : d \in dates, h \in times, z \in {"", "Z", "z"}}
        \cup {"", "garbage", "2024-01-01T12:00:00Z", "+20240101", " 20240101", "20240101T",
              "T120000", "20240101 120000"}

---------------------------------------------------------------------------
(* map_ical_event, one loop iteration at a time *)

Locals == [event |-> event, rrule_lines |-> rrule_lines, has_rrules |-> has_rrules,
           ret |-> NotReturned]

Init ==
    /\ properties \in Inputs
    /\ tz \in Zones
    /\ i = 0
    /\ event = EventDefault
    /\ rrule_lines = None
    /\ has_rrules = FALSE
    /\ rrule_text = None
    /\ result = NotReturned
    /\ pc = "loop"
    /\ s = ""
    /\ parsed = NotReturned

\* the locals and the return value after one pass of the loop body
Commit(st) ==
    /\ event' = st.event
    /\ rrule_lines' = st.rrule_lines
    /\ has_rrules' = st.has_rrules
    /\ result' = st.ret
    /\ pc' = IF st.ret.tag = "none" THEN "loop" ELSE "done"

\* the body of the for loop on the next property; an early return ends the call
LoopStep ==
    /\ pc = "loop"
    /\ i < Len(properties)
    /\ i' = i + 1
    /\ Commit(LoopBody(Locals, properties[i + 1], tz))
    /\ UNCHANGED <<properties, tz, rrule_text, s, parsed>>

\* what the function returns at its end, and the text it gave the recurrence parser
Returned(r, text) ==
    /\ result' = r
    /\ event' = IF r.tag = "Ok" THEN Unwrap(r.val) ELSE event
    /\ rrule_text' = IF has_rrules /\ text.tag = "Ok" THEN text.val ELSE None

\* the loop is over: assemble the recurrence set if an RRULE was seen, and return
Finish ==
    /\ pc = "loop"
    /\ i = Len(properties)
    /\ \E accepts \in BOOLEAN : Returned(AfterLoop(Locals, accepts), RruleText(rrule_lines))
    /\ pc' = "done"
    /\ UNCHANGED <<properties, tz, i, rrule_lines, has_rrules, s, parsed>>

Next == LoopStep \/ Finish

Spec == Init /\ [][Next]_vars

---------------------------------------------------------------------------
(* The scalar parsers called on their own *)

IdleBuilder ==
    /\ properties = <<>>
    /\ i = 0
    /\ event = EventDefault
    /\ rrule_lines = None
    /\ has_rrules = FALSE
    /\ rrule_text = None
    /\ result = NotReturned

DurationInit ==
    /\ IdleBuilder
    /\ tz = ZoneUtc
    /\ s \in DurationInputs
    /\ parsed = NotReturned
    /\ pc = "call"

CallParseDuration ==
    /\ pc = "call"
    /\ parsed' = parse_duration(s)
    /\ pc' = "returned"
    /\ UNCHANGED <<properties, tz, i, event, rrule_lines, has_rrules, rrule_text, result, s>>

DurationSpec == DurationInit /\ [][CallParseDuration]_vars

DatetimeInit ==
    /\ IdleBuilder
    /\ tz \in Zones
    /\ s \in DatetimeInputs
    /\ parsed = NotReturned
    /\ pc = "call"

CallParseDatetime ==
    /\ pc = "call"
    /\ parsed' = parse_datetime(s, tz)
    /\ pc' = "returned"
    /\ UNCHANGED <<properties, tz, i, event, rrule_lines, has_rrules, rrule_text, result, s>>

DatetimeSpec == DatetimeInit /\ [][CallParseDatetime]_vars

---------------------------------------------------------------------------
(* What the claims speak of, stated on the input list itself *)

Valued(k) == IsSome(properties[k].value)

NameAt(k) == properties[k].name

ValueAt(k) == Unwrap(properties[k].value)

\* the names the conversion gives a meaning to
RecognizedNames ==
    {"UID", "SUMMARY", "DTSTART", "DTEND", "CREATED", "DURATION", "LOCATION", "DESCRIPTION",
     "STATUS", "LAST-MODIFIED", "TRANSPARENCY", "CATEGORIES", "ATTENDEE", "ORGANIZER",
     "PRIORITY", "SEQUENCE", "DTSTAMP", "RECURRENCE-ID", "RRULE", "RDATE", "EXRULE", "EXDATE",
     "COMMENT", "ATTACH", "ALARM"}

IsBenignName(n) == SubSeq(n, 1, 2) = "X-" \/ n = "TRANSP" \/ n = "CLASS"

IsUnknownName(n) == n \notin RecognizedNames /\ ~IsBenignName(n)

UnknownAt == {k \in 1..Len(properties) : Valued(k) /\ IsUnknownName(NameAt(k))}

EndsWith(str, suffix) ==
    Len(str) >= Len(suffix) /\ SubSeq(str, Len(str) - Len(suffix) + 1, Len(str)) = suffix

Min(S) == CHOOSE x \in S : \A y \in S : x <= y

Max(S) == CHOOSE x \in S : \A y \in S : y <= x

\* what the dispatch of property k alone comes to: "none" when the loop goes on
AloneAt(k) == MatchKey(EventDefault, NameAt(k), ValueAt(k), tz).ret

\* the properties with a value whose dispatch does not go through
FailingAt == {k \in 1..Len(properties) : Valued(k) /\ AloneAt(k).tag # "none"}

ReturnedEvent == Unwrap(result.val)

Succeeded == pc = "done" /\ result.tag = "Ok"

\* the NAME:value lines of the valued recurrence-defining properties among the first n
RECURSIVE RecurrenceLinesUpTo(_)
RecurrenceLinesUpTo(n) ==
    IF n = 0 THEN <<>>
    ELSE IF Valued(n) /\ NameAt(n) \in {"RRULE", "RDATE", "EXRULE", "EXDATE", "DTSTART"}
    THEN Append(RecurrenceLinesUpTo(n - 1), NameAt(n) \o ":" \o ValueAt(n))
    ELSE RecurrenceLinesUpTo(n - 1)

\* the lines joined with newlines
RECURSIVE Block(_)
Block(lines) ==
    IF lines = <<>> THEN ""
    ELSE IF Len(lines) = 1 THEN lines[1]
    ELSE Block(SubSeq(lines, 1, Len(lines) - 1)) \o "\n" \o lines[Len(lines)]

RruleSeenUpTo(n) == \E k \in 1..n : Valued(k) /\ NameAt(k) = "RRULE"

\* the values of the valued properties called name, in list order
RECURSIVE ValuesOf(_, _)
ValuesOf(name, n) ==
    IF n = 0 THEN <<>>
    ELSE IF Valued(n) /\ NameAt(n) = name THEN Append(ValuesOf(name, n - 1), ValueAt(n))
    ELSE ValuesOf(name, n - 1)

---------------------------------------------------------------------------
(* C1 *)

\* C1, as stated: whenever the list holds a valued property with an unknown name,
\* the conversion returns an error that carries that name.
C1_UnknownNameAlwaysReported ==
    pc = "done" =>
        \A k \in UnknownAt : result.tag = "Err" /\ EndsWith(result.msg, NameAt(k))

\* C1, amended: a list that holds a valued property with an unknown name never
\* yields an Event; and when every valued property before the first such one is
\* dispatched successfully, the conversion stops there and returns the error
\* "Unknown property key: <name>" with that first name.
C1_FirstUnknownNameReported ==
    (pc = "done" /\ UnknownAt # {}) =>
        /\ result.tag # "Ok"
        /\ (\A j \in 1..(Min(UnknownAt) - 1) : j \notin FailingAt) =>
              /\ result.tag = "Err"
              /\ result.msg = "Unknown property key: " \o NameAt(Min(UnknownAt))
              /\ EndsWith(result.msg, NameAt(Min(UnknownAt)))
              /\ i = Min(UnknownAt)

C1_Witness ==
    /\ pc = "done"
    /\ properties = <<Prop("SUMMARY", "first"), Prop("X-WR-CALNAME", "v"), Prop("FOO", "x")>>
    /\ result = Err("Unknown property key: FOO")

---------------------------------------------------------------------------
(* C2 *)

HasRecurrenceProperty ==
    \E k \in 1..Len(properties) :
        Valued(k) /\ NameAt(k) \in {"RRULE", "RDATE", "EXRULE", "EXDATE", "DTSTART"}

\* C2, as stated: after a successful conversion the recurrence field is present
\* (and built from all such properties) if the list holds any of RRULE, RDATE,
\* EXRULE, EXDATE, DTSTART, and absent if it holds none.
C2_RecurrencePresentIffAnyProperty ==
    Succeeded =>
        IF HasRecurrenceProperty
        THEN /\ IsSome(ReturnedEvent.rrule)
             /\ Unwrap(ReturnedEvent.rrule).rrule_set_of = Block(RecurrenceLinesUpTo(Len(properties)))
        ELSE ReturnedEvent.rrule = None

\* C2, amended: after a successful conversion the recurrence field is present
\* exactly when the list holds an RRULE property with a value, and it is then the
\* set parsed from the lines of all valued RRULE, RDATE, EXRULE, EXDATE and DTSTART
\* properties in list order; without an RRULE it is absent.
C2_RecurrencePresentIffRrule ==
    Succeeded =>
        IF RruleSeenUpTo(Len(properties))
        THEN /\ IsSome(ReturnedEvent.rrule)
             /\ Unwrap(ReturnedEvent.rrule).rrule_set_of = Block(RecurrenceLinesUpTo(Len(properties)))
        ELSE ReturnedEvent.rrule = None

C2_Witness ==
    /\ Succeeded
    /\ properties = <<Prop("DTSTART", "20240101"), Prop("RRULE", "FREQ=DAILY"), Prop("EXDATE", "20240102")>>
    /\ ReturnedEvent.rrule =
          Some([rrule_set_of |-> "DTSTART:20240101\nRRULE:FREQ=DAILY\nEXDATE:20240102"])

---------------------------------------------------------------------------
(* C3 *)

\* C3: has_rrules is set exactly by a valued RRULE; when the pass goes through the
\* whole list, the buffered lines are joined and handed to the recurrence parser
\* exactly when a valued RRULE was seen, and without one the conversion succeeds
\* with the recurrence field absent, whatever the buffer holds.
C3_AssemblyOnlyOnRrule ==
    /\ has_rrules <=> RruleSeenUpTo(i)
    /\ (pc = "done" /\ FailingAt = {}) =>
          /\ IsSome(rrule_text) <=> RruleSeenUpTo(Len(properties))
          /\ ~RruleSeenUpTo(Len(properties)) => (result.tag = "Ok" /\ ReturnedEvent.rrule = None)
    /\ (pc = "done" /\ FailingAt # {}) => rrule_text = None

C3_Witness ==
    /\ Succeeded
    /\ properties = <<Prop("DTSTART", "20240101")>>
    /\ rrule_lines = Some(<<"DTSTART:20240101">>)
    /\ ~has_rrules
    /\ ReturnedEvent.rrule = None

---------------------------------------------------------------------------
(* C4 *)

\* C4, as stated: when some property with a value fails, the conversion returns an
\* error and no Event, the error is that of the first failing property, the pass
\* stops at it, and the recurrence parser's error is returned only when no
\* property failed.
C4_FailFast ==
    pc = "done" =>
        /\ FailingAt # {} =>
              /\ result.tag = "Err"
              /\ result = AloneAt(Min(FailingAt))
              /\ i = Min(FailingAt)
        /\ result = Err("RRuleSet parse error") => FailingAt = {}

\* the same on the runs in which no parser panics
C4_FailFastUnlessPanic ==
    (pc = "done" /\ \A k \in FailingAt : AloneAt(k).tag = "Err") => C4_FailFast

---------------------------------------------------------------------------
(* C5 *)

\* the zone-less form YYYYMMDDTHHMMSS
IsZonelessForm(str) ==
    /\ Len(str) = 15
    /\ Char(str, 9) = "T"
    /\ \A k \in (1..8) \cup (10..15) : Char(str, k) \in AsciiDigits

\* C5, as stated: on a zone-less value parse_datetime returns normally, with an
\* error when the local time zone gives the value no single instant; it never panics.
C5_LocalTimeFailureIsRecoverable ==
    (pc = "returned" /\ IsZonelessForm(s)) => parsed.tag \in {"Ok", "Err"}

---------------------------------------------------------------------------
(* C6 *)

\* the list without its X-..., TRANSP and CLASS properties
RECURSIVE WithoutBenign(_)
WithoutBenign(props) ==
    IF props = <<>> THEN <<>>
    ELSE IF IsBenignName(Head(props).name) THEN WithoutBenign(Tail(props))
    ELSE <<Head(props)>> \o WithoutBenign(Tail(props))

\* C6: the outcome for a list (the error, or every field of the Event) is the
\* outcome for the list with its X-..., TRANSP and CLASS properties taken out.
C6_BenignPropertiesChangeNothing ==
    pc = "done" =>
        \E accepts \in BOOLEAN :
            /\ result = map_ical_event(properties, tz, accepts)
            /\ result = map_ical_event(WithoutBenign(properties), tz, accepts)

C6_Witness ==
    /\ Succeeded
    /\ properties = <<Prop("TRANSP", "OPAQUE"), Prop("SUMMARY", "first"), Prop("X-WR-CALNAME", "v")>>
    /\ ReturnedEvent = [EventDefault EXCEPT !.summary = Some("first")]

---------------------------------------------------------------------------
(* C7 *)

MultiValued ==
    {<<"CATEGORIES", "categories">>, <<"ATTENDEE", "attendees">>, <<"ATTACH", "attach">>,
     <<"ALARM", "alarms">>}

\* C7: after a successful conversion each multi-valued field is absent when no
\* property of its name carries a value, and otherwise holds exactly their values
\* in list order, duplicates kept.
C7_MultiValuedInOrder ==
    Succeeded =>
        \A nf \in MultiValued :
            ReturnedEvent[nf[2]] =
                IF ValuesOf(nf[1], Len(properties)) = <<>> THEN None
                ELSE Some(ValuesOf(nf[1], Len(properties)))

C7_Witness ==
    /\ Succeeded
    /\ properties = <<Prop("CATEGORIES", "A"), Prop("CATEGORIES", "B"), Prop("CATEGORIES", "A")>>
    /\ ReturnedEvent.categories = Some(<<"A", "B", "A">>)

---------------------------------------------------------------------------
(* C8 *)

ScalarField(n) ==
    CASE n = "UID" -> "uid" [] n = "SUMMARY" -> "summary" [] n = "DTSTART" -> "start"
      [] n = "DTEND" -> "end" [] n = "CREATED" -> "created" [] n = "DURATION" -> "duration"
      [] n = "LOCATION" -> "location" [] n = "DESCRIPTION" -> "description"
      [] n = "STATUS" -> "status" [] n = "ORGANIZER" -> "organizer"
      [] n = "PRIORITY" -> "priority" [] n = "SEQUENCE" -> "sequence"
      [] n = "DTSTAMP" -> "dtstamp" [] n = "RECURRENCE-ID" -> "recurrence_id"
      [] n = "COMMENT" -> "comment" [] n = "LAST-MODIFIED" -> "last_modified"

ScalarNames ==
    {"UID", "SUMMARY", "DTSTART", "DTEND", "CREATED", "DURATION", "LOCATION", "DESCRIPTION",
     "STATUS", "ORGANIZER", "PRIORITY", "SEQUENCE", "DTSTAMP", "RECURRENCE-ID", "COMMENT",
     "LAST-MODIFIED"}

\* the typed value of a scalar property's text
ParsedScalar(n, v) ==
    CASE n \in {"DTSTART", "DTEND", "CREATED", "DTSTAMP", "RECURRENCE-ID", "LAST-MODIFIED"} ->
            parse_datetime(v, tz).val
      [] n = "DURATION" -> parse_duration(v).val
      [] n = "STATUS"   -> EventStatusFromStr(v).val
      [] n = "PRIORITY" -> ParseU8(v).val
      [] n = "SEQUENCE" -> ParseI32(v).val
      [] OTHER -> Some(v)

OccurrencesOf(n) == {k \in 1..Len(properties) : Valued(k) /\ NameAt(k) = n}

\* C8: after a successful conversion a scalar field whose name occurs with a value
\* holds the parsed value of the last such occurrence.
C8_LastWriteWins ==
    Succeeded =>
        \A n \in ScalarNames :
            OccurrencesOf(n) # {} =>
                ReturnedEvent[ScalarField(n)] = ParsedScalar(n, ValueAt(Max(OccurrencesOf(n))))

C8_Witness ==
    /\ Succeeded
    /\ properties = <<Prop("SUMMARY", "first"), Prop("SUMMARY", "second")>>
    /\ ReturnedEvent.summary = Some("second")

---------------------------------------------------------------------------
(* C9 *)

\* str[lo..hi] is empty, or one or more digits and then the unit letter
IsComponent(str, lo, hi, unit) ==
    \/ hi = lo - 1
    \/ /\ hi > lo
       /\ Char(str, hi) = unit
       /\ \A k \in lo..(hi - 1) : Char(str, k) \in AsciiDigits

\* the number a component writes, zero for an absent one
ComponentValue(str, lo, hi) ==
    IF hi = lo - 1 THEN <<>> ELSE BigOfDigits(SubSeq(str, lo, hi - 1))

\* the ways to read str as P[nD][T[nH][nM][nS]]: the ends of the day, hour and
\* minute components
DurationReadings(str) ==
    {r \in (1..Len(str)) \X (1..Len(str)) \X (1..Len(str)) :
        /\ Char(str, 1) = "P"
        /\ IsComponent(str, 2, r[1], "D")
        /\ \/ r[1] = Len(str) /\ r[2] = r[1] /\ r[3] = r[1]
           \/ /\ Char(str, r[1] + 1) = "T"
              /\ r[1] + 1 <= r[2] /\ r[2] <= r[3]
              /\ IsComponent(str, r[1] + 2, r[2], "H")
              /\ IsComponent(str, r[2] + 1, r[3], "M")
              /\ IsComponent(str, r[3] + 1, Len(str), "S")}

\* days*86400 + hours*3600 + minutes*60 + seconds of a reading
WrittenSeconds(str, r) ==
    IF r[1] = Len(str)
    THEN BigMul(ComponentValue(str, 2, r[1]), 86400)
    ELSE BigAdd(BigAdd(BigMul(ComponentValue(str, 2, r[1]), 86400),
                       BigMul(ComponentValue(str, r[1] + 2, r[2]), 3600)),
                BigAdd(BigMul(ComponentValue(str, r[2] + 1, r[3]), 60),
                       ComponentValue(str, r[3] + 1, Len(str))))

\* C9, as stated: parse_duration accepts exactly the strings of the form
\* P[nD][T[nH][nM][nS]], rejects every other with the format error, and the
\* duration of an accepted string is the seconds its components write.
C9_DurationGrammarAndValue ==
    pc = "returned" =>
        IF DurationReadings(s) = {}
        THEN parsed = Err("Invalid duration format")
        ELSE \A r \in DurationReadings(s) : parsed = Ok(WrittenSeconds(s, r))

\* the same on the strings whose numbers have at most four digits
C9_HoldsForSmallNumbers ==
    (pc = "returned" /\ \A k \in 1..(Len(s) - 4) : ~AllDigits(SubSeq(s, k, k + 4)))
        => C9_DurationGrammarAndValue

---------------------------------------------------------------------------
(* C10 *)

\* C10: after every step the buffer holds exactly the NAME:value lines of the
\* valued RRULE, RDATE, EXRULE, EXDATE and DTSTART properties consumed so far, in
\* list order (None when there is none); it is not empty once has_rrules is set,
\* and the text given to the recurrence parser is those lines joined by newlines.
C10_BufferIsLinesInOrder ==
    /\ rrule_lines = IF RecurrenceLinesUpTo(i) = <<>> THEN None ELSE Some(RecurrenceLinesUpTo(i))
    /\ has_rrules => (IsSome(rrule_lines) /\ Unwrap(rrule_lines) # <<>>)
    /\ IsSome(rrule_text) =>
          (has_rrules /\ Unwrap(rrule_text) = Block(RecurrenceLinesUpTo(Len(properties))))

C10_Witness ==
    /\ pc = "done"
    /\ properties = <<Prop("DTSTART", "20240101"), Bare("RRULE"), Prop("RRULE", "FREQ=DAILY")>>
    /\ rrule_lines = Some(<<"DTSTART:20240101", "RRULE:FREQ=DAILY">>)
    /\ rrule_text = Some("DTSTART:20240101\nRRULE:FREQ=DAILY")

====
